---- MODULE Spec2Model ----
(***************************************************************************)
(* Model of chrisryba/symmetric-group:                                     *)
(*   src/symchar.py  - char_val: characters of the symmetric group by the  *)
(*                     Murnaghan-Nakayama rule, the hook-length formula    *)
(*                     and a process-wide memoisation table (chardict);    *)
(*   src/LR_calc.py  - LR_coeff: Littlewood-Richardson coefficients by a   *)
(*                     backtracking search over lattice words.             *)
(*                                                                         *)
(* Python lists and tuples are TLA+ sequences.  Python indexes from 0 and  *)
(* TLA+ from 1: At(s, i) reads the Python item s[i].  A border cell is the *)
(* Python pair (x, y), here <<x, y>>, so the source's i[0] is c[1] and the *)
(* source's i[1] is c[2].  The source is Python 2: xrange, and "/" on two  *)
(* ints is floor division.                                                 *)
(***************************************************************************)
EXTENDS Integers, Sequences, FiniteSets, TLC

\* ------------------------------------------------------------- bounds
\* Largest size of a partition / cycle type handed to a single char_val call.
MaxN == 6
\* Largest size of a partition in a sequence of char_val calls on one cache.
MemoN == 3
\* Longest sequence of char_val calls on one cache.
MaxCalls == 2
\* Largest size of p3 (and of p1, p2) handed to LR_coeff.
MaxLR == 6

\* ------------------------------------------------------------ helpers
Max(a, b) == IF a >= b THEN a ELSE b
Min(a, b) == IF a <= b THEN a ELSE b

\* Python's s[i] for 0 <= i < len(s).
At(s, i) == s[i + 1]

\* Python's sum(s).
RECURSIVE Sum(_)
Sum(s) == IF s = <<>> THEN 0 ELSE Head(s) + Sum(Tail(s))

\* The partitions of n with every part at most m, as weakly decreasing
\* sequences of positive integers: the inputs of both programs.
RECURSIVE PartitionsMax(_, _)
PartitionsMax(n, m) ==
    IF n = 0 THEN {<<>>}
    ELSE UNION { { <<k>> \o t : t \in PartitionsMax(n - k, k) } : k \in 1..Min(n, m) }

Partitions(n) == PartitionsMax(n, n)
PartitionsUpTo(n) == UNION { Partitions(k) : k \in 0..n }

IsPartition(s) ==
    /\ \A i \in 1..Len(s) : s[i] >= 1
    /\ \A i \in 1..(Len(s) - 1) : s[i] >= s[i + 1]

\* ------------------------------------------------- src/symchar.py
\* sorted(char)[::-1]: the items of char in weakly decreasing order
\* (insertion of the head into the sorted tail).
RECURSIVE InsertDesc(_, _)
InsertDesc(v, s) ==
    IF s = <<>> THEN <<v>>
    ELSE IF v >= Head(s) THEN <<v>> \o s
    ELSE <<Head(s)>> \o InsertDesc(v, Tail(s))

RECURSIVE SortedReversed(_)
SortedReversed(s) ==
    IF s = <<>> THEN <<>> ELSE InsertDesc(Head(s), SortedReversed(Tail(s)))

\* rectify, lines 16-22: sub[y], the number of cells of the skew hook whose
\* second coordinate is y.
SubCount(skew, y) == Cardinality({ n \in 1..Len(skew) : skew[n][2] = y })

\* rectify, lines 25-27: "while newchar[ctr] == 0 and ctr >= 0: ctr -= 1".
\* With ctr = -1 Python reads newchar[-1], the last item, before it tests
\* ctr >= 0; newchar is never empty here.
RECURSIVE StripCtr(_, _)
StripCtr(newchar, ctr) ==
    LET item == IF ctr >= 0 THEN At(newchar, ctr) ELSE newchar[Len(newchar)]
    IN  IF item = 0 /\ ctr >= 0 THEN StripCtr(newchar, ctr - 1) ELSE ctr

\* rectify(char, skew), for a non-empty char.
rectify(char, skew) ==
    LET sorted  == SortedReversed(char)
        newchar == [n \in 1..Len(sorted) |-> sorted[n] - SubCount(skew, n - 1)]
        ctr     == StripCtr(newchar, Len(newchar) - 1)
    IN  SubSeq(newchar, 1, ctr + 1)

\* dual, lines 41-42: the inner while loop moving the cursor up.
RECURSIVE DualCursor(_, _, _)
DualCursor(part, cursor, i) ==
    IF At(part, cursor) < i THEN DualCursor(part, cursor - 1, i) ELSE cursor

\* dual, lines 40-43: the for loop from i, with the cursor and out so far.
RECURSIVE DualLoop(_, _, _, _)
DualLoop(part, i, cursor, out) ==
    IF i > part[1] THEN out
    ELSE LET c == DualCursor(part, cursor, i)
         IN  DualLoop(part, i + 1, c, Append(out, c + 1))

\* dual(part), for a non-empty part (part[0] raises IndexError on []).
dual(part) == DualLoop(part, 1, Len(part) - 1, <<>>)

RECURSIVE factorial(_)
factorial(n) == IF n <= 0 THEN 1 ELSE n * factorial(n - 1)

\* Mutant of HookProd: each hook length one too long (the "- 1" left out).
RECURSIVE HookProdOffByOne(_, _, _, _, _)
HookProdOffByOne(part, loc, i, j, prod) ==
    IF i >= Len(part) THEN prod
    ELSE IF j >= At(part, i) THEN HookProdOffByOne(part, loc, i + 1, 0, prod)
    ELSE HookProdOffByOne(part, loc, i, j + 1,
                          prod * (At(part, i) - j + At(loc, j) - i))

\* hook_formula, lines 52-54: the product, from cell (i, j) on, row by row.
RECURSIVE HookProd(_, _, _, _, _)
HookProd(part, loc, i, j, prod) ==
    IF i >= Len(part) THEN prod
    ELSE IF j >= At(part, i) THEN HookProd(part, loc, i + 1, 0, prod)
    ELSE HookProd(part, loc, i, j + 1,
                  prod * (At(part, i) - j + At(loc, j) - i - 1))

\* hook_formula(part), for a non-empty part; Python 2 "/" is floor division.
hook_formula(part) ==
    factorial(Sum(part)) \div HookProd(part, dual(part), 0, 0, 1)

\* char_val, lines 85-91: the border strip, n cells still to append from (x, y).
RECURSIVE BorderLoop(_, _, _, _, _)
BorderLoop(char, x, y, n, acc) ==
    IF n = 0 THEN acc
    ELSE IF At(char, y) = x + 1
         THEN BorderLoop(char, x, y - 1, n - 1, Append(acc, <<x, y>>))
         ELSE BorderLoop(char, x + 1, y, n - 1, Append(acc, <<x, y>>))

\* borderstrip of a non-empty char.
Borderstrip(char) ==
    BorderLoop(char, 0, Len(char) - 1, Len(char) + char[1] - 1, <<>>)

\* borderstrip[i:i+k], for 0 <= i and i + k <= len(borderstrip).
Window(bs, i, k) == SubSeq(bs, i + 1, i + k)

\* Mutant of PrevOk: the check against the cell before the window left out.
PrevOkUnchecked(bs, i) == TRUE

\* char_val, lines 101-104: the check against the cell before the window.
PrevOk(bs, i) == ~(i > 0 /\ At(bs, i - 1)[1] = At(bs, i)[1])

\* char_val, lines 105-108: the check against the cell after the window.
NextOk(bs, i, k) ==
    ~(i + k - 1 < Len(bs) - 1 /\ At(bs, i + k)[2] = At(bs, i + k - 1)[2])

WindowValid(bs, i, k) == PrevOk(bs, i) /\ NextOk(bs, i, k)

\* Mutant of HookSign: the parity taken of the first coordinates (the columns)
\* of the two ends instead of the second (the rows).
HookSignByColumns(start, end) == IF (start[1] - end[1]) % 2 = 1 THEN -1 ELSE 1

\* char_val, lines 112-115: the sign the recursive value is added with.
HookSign(start, end) == IF (start[2] - end[2]) % 2 = 1 THEN -1 ELSE 1

\* Mutant of IsIdentity: the hook-length shortcut never taken.
IsIdentityNever(elt, isList) == FALSE

\* line 69: elt == [1]*len(elt).  A tuple never equals a list, so the test
\* is false for every elt given as a tuple, () included.
IsIdentity(elt, isList) == isList /\ \A n \in 1..Len(elt) : elt[n] = 1

\* Mutant of CacheKey: the cycle type left out of the key.
CacheKeyCharOnly(char, elt) == <<char, <<>>>>

\* line 62: key = (tuple(char), tuple(elt)); list or tuple, the same key.
CacheKey(char, elt) == <<char, elt>>

\* lines 33-34: chardict after the module is loaded.
SeedDict == (CacheKey(<<>>, <<>>) :> 1)

\* chardict[key] = value
Store(dict, key, value) == (key :> value) @@ dict

\* What one invocation of char_val leaves behind: err (an IndexError left it),
\* val (the value returned, when err is FALSE), dict (chardict afterwards) and
\* depth (the largest number of char_val invocations active at once during
\* it, this one included).
Returned(value, dict, depth) ==
    [err |-> FALSE, val |-> value, dict |-> dict, depth |-> depth]
Raised(dict, depth) ==
    [err |-> TRUE, val |-> 0, dict |-> dict, depth |-> depth]

RECURSIVE char_val(_, _, _, _)

\* char_val, lines 97-115: the loop over the windows from i on, with value so
\* far; an exception of the recursive call ends the loop and the caller.
RECURSIVE WindowLoop(_, _, _, _, _, _, _, _)
WindowLoop(dict, char, elt, isList, bs, i, value, depth) ==
    IF i >= Len(bs) - elt[1] + 1 THEN Returned(value, dict, depth)
    ELSE IF ~WindowValid(bs, i, elt[1])
    THEN WindowLoop(dict, char, elt, isList, bs, i + 1, value, depth)
    ELSE LET sub == char_val(dict, rectify(char, Window(bs, i, elt[1])),
                             Tail(elt), isList)
             d   == Max(depth, 1 + sub.depth)
             s   == HookSign(At(bs, i), At(bs, i + elt[1] - 1))
         IN  IF sub.err THEN Raised(sub.dict, d)
             ELSE WindowLoop(sub.dict, char, elt, isList, bs, i + 1,
                             value + s * sub.val, d)

\* char_val(char, elt) run on chardict = dict; isList tells whether elt is a
\* Python list (TRUE) or a tuple (FALSE).
char_val(dict, char, elt, isList) ==
    LET key == CacheKey(char, elt)
    IN  IF key \in DOMAIN dict THEN Returned(dict[key], dict, 1)
        ELSE IF IsIdentity(elt, isList)
        THEN IF char = <<>> THEN Raised(dict, 1)          \* dual: part[0]
             ELSE LET value == hook_formula(char)
                  IN  Returned(value, Store(dict, key, value), 1)
        ELSE IF char = <<>> THEN Raised(dict, 1)          \* line 86: char[0]
        ELSE IF elt = <<>> THEN Raised(dict, 1)           \* line 97: elt[0]
        ELSE LET r == WindowLoop(dict, char, elt, isList, Borderstrip(char),
                                 0, 0, 1)
             IN  IF r.err THEN r
                 ELSE Returned(r.val, Store(r.dict, key, r.val), r.depth)

\* ------------------------------------------------- src/LR_calc.py
\* lines 16-18 (and 20-22): the diagram of p fits inside the diagram of p3.
Fits(p, p3) ==
    \A index \in 0..(Len(p) - 1) :
        ~(index >= Len(p3) \/ At(p, index) > At(p3, index))

\* line 26: whether p1 and p2 are swapped.
SwapNeeded(p1, p2) == Sum(p2) < Sum(p1)

\* lines 45-47: the cells of the row that p2 takes away.
Offset(p2, row) == IF row < Len(p2) THEN At(p2, row) ELSE 0

\* lines 50-53: the cells of one row (0-indexed), from right to left.
RowCells(p2, p3, row) ==
    [n \in 1..Max(0, At(p3, row) - Offset(p2, row)) |->
        <<row + 1, At(p3, row) - (n - 1)>>]

\* lines 41-53: entries_to_coords, as the sequence of cells by word position.
RECURSIVE EntriesToCoords(_, _, _)
EntriesToCoords(p2, p3, row) ==
    IF row >= Len(p3) THEN <<>>
    ELSE RowCells(p2, p3, row) \o EntriesToCoords(p2, p3, row + 1)

\* lines 35, 52: coords_to_entries (a later assignment to a cell would win).
CoordsToEntries(e2c) ==
    [cell \in { e2c[n] : n \in 1..Len(e2c) } |->
        (CHOOSE n \in 1..Len(e2c) :
            e2c[n] = cell /\ \A q \in 1..Len(e2c) : e2c[q] = cell => q <= n) - 1]

\* line 60: the item of lattice_word not yet written.
None == -1

\* Mutant of LowerBound: the "+ 1" left out, so that a letter may equal the
\* letter above it.
LowerBoundWeak(e2c, c2e, word, location) ==
    LET cell  == At(e2c, location)
        above == <<cell[1] - 1, cell[2]>>
    IN  IF above \in DOMAIN c2e THEN At(word, c2e[above]) ELSE 0

\* lines 81, 86-87: the lower bound, from the cell above.
LowerBound(e2c, c2e, word, location) ==
    LET cell  == At(e2c, location)
        above == <<cell[1] - 1, cell[2]>>
    IN  IF above \in DOMAIN c2e THEN At(word, c2e[above]) + 1 ELSE 0

\* Mutant of UpperBound: the right neighbour not looked at.
UpperBoundUnchecked(p1, e2c, c2e, word, location) == Len(p1) - 1

\* lines 82, 84-85: the upper bound, from the cell to the right.
UpperBound(p1, e2c, c2e, word, location) ==
    LET cell  == At(e2c, location)
        right == <<cell[1], cell[2] + 1>>
    IN  IF right \in DOMAIN c2e THEN At(word, c2e[right]) ELSE Len(p1) - 1

\* lines 91-92: the letter is not used up.
WeightOk(p1, wc, candidate) == At(wc, candidate) # At(p1, candidate)

\* Mutant of LatticeOk: the lattice word condition not checked.
LatticeOkUnchecked(wc, candidate) == TRUE

\* lines 93-94: the letter keeps the lattice word condition.
LatticeOk(wc, candidate) ==
    ~(candidate > 0 /\ At(wc, candidate) = At(wc, candidate - 1))

\* lines 90-96: viable, the candidates from c to upper that pass, in order.
RECURSIVE ViableFrom(_, _, _, _)
ViableFrom(p1, wc, c, upper) ==
    IF c > upper THEN <<>>
    ELSE (IF WeightOk(p1, wc, c) /\ LatticeOk(wc, c) THEN <<c>> ELSE <<>>)
         \o ViableFrom(p1, wc, c + 1, upper)

\* lines 78-96: viable at a location of the word.
Viable(p1, e2c, c2e, word, wc, location) ==
    ViableFrom(p1, wc, LowerBound(e2c, c2e, word, location),
               UpperBound(p1, e2c, c2e, word, location))

\* ------------------------------------------------------------- state
VARIABLES
    chardict,   \* symchar.chardict
    char,       \* the arguments of the last top-level char_val call
    elt,
    eltIsList,
    outcome,    \* "none" | "returned" | "IndexError": how that call ended
    value,      \* the value it returned
    depth,      \* the deepest nesting of char_val invocations it reached
    calls,      \* the number of top-level calls made
    lr_pc,      \* LR_coeff: "idle" | "enter" | "loop" | "ret" | "done" | "AssertionError"
    args,       \* the arguments <<p1, p2, p3>> of the running LR_coeff call
    p1, p2, p3, \* its locals: p1 and p2 after the swap of line 27
    entries_to_coords,
    coords_to_entries,
    lattice_word,
    weight_count,
    stack,      \* the active recursive_fill invocations that are in their loop:
                \* [location, viable, idx], idx the position in viable (from 0)
    location,   \* the location argument of the invocation being entered
    count,      \* count, as passed to and returned by recursive_fill
    result,     \* what LR_coeff returned
    run,        \* 1: the call LR_coeff(a, b, c); 2: the call LR_coeff(b, a, c) after it
    first       \* the result of run 1

charVars == <<chardict, char, elt, eltIsList, outcome, value, depth, calls>>
lrVars == <<lr_pc, args, p1, p2, p3, entries_to_coords, coords_to_entries,
            lattice_word, weight_count, stack, location, count, result, run,
            first>>
vars == <<charVars, lrVars>>

CharInit ==
    /\ chardict = SeedDict
    /\ char = <<>>
    /\ elt = <<>>
    /\ eltIsList = TRUE
    /\ outcome = "none"
    /\ value = 0
    /\ depth = 0
    /\ calls = 0

\* One top-level call char_val(c, e), to its end.
CharCall(c, e, isList) ==
    LET r == char_val(chardict, c, e, isList)
    IN  /\ chardict' = r.dict
        /\ char' = c
        /\ elt' = e
        /\ eltIsList' = isList
        /\ outcome' = IF r.err THEN "IndexError" ELSE "returned"
        /\ value' = r.val
        /\ depth' = r.depth
        /\ calls' = calls + 1

\* A single call on the freshly loaded module, with any two partitions.
SingleCall ==
    /\ calls = 0
    /\ \E c \in PartitionsUpTo(MaxN), e \in PartitionsUpTo(MaxN), isList \in BOOLEAN :
          CharCall(c, e, isList)
    /\ UNCHANGED lrVars

\* One more call of a sequence of calls on partitions of the same size.
MemoCall ==
    /\ calls < MaxCalls
    /\ \E n \in 0..MemoN :
          \E c \in Partitions(n), e \in Partitions(n), isList \in BOOLEAN :
             CharCall(c, e, isList)
    /\ UNCHANGED lrVars

\* ----------------------------------------------------- LR_coeff
LRInit ==
    /\ lr_pc = "idle"
    /\ args = <<>>
    /\ p1 = <<>> /\ p2 = <<>> /\ p3 = <<>>
    /\ entries_to_coords = <<>>
    /\ coords_to_entries = <<>>
    /\ lattice_word = <<>>
    /\ weight_count = <<>>
    /\ stack = <<>>
    /\ location = 0
    /\ count = 0
    /\ result = 0
    /\ run = 1
    /\ first = 0

\* lines 12-61 and the call of line 110: LR_coeff(a1, a2, a3) up to the entry
\* of recursive_fill(0, 0), or to its early end.
LRStart(a1, a2, a3) ==
    /\ args' = <<a1, a2, a3>>
    /\ IF Sum(a1) + Sum(a2) # Sum(a3)
       THEN /\ lr_pc' = "AssertionError"
            /\ UNCHANGED <<p1, p2, p3, entries_to_coords, coords_to_entries,
                           lattice_word, weight_count, stack, location, count,
                           result>>
       ELSE IF ~Fits(a1, a3) \/ ~Fits(a2, a3)
       THEN /\ lr_pc' = "done"
            /\ result' = 0
            /\ p1' = a1 /\ p2' = a2 /\ p3' = a3
            /\ UNCHANGED <<entries_to_coords, coords_to_entries, lattice_word,
                           weight_count, stack, location, count>>
       ELSE LET q1  == IF SwapNeeded(a1, a2) THEN a2 ELSE a1
                q2  == IF SwapNeeded(a1, a2) THEN a1 ELSE a2
                e2c == EntriesToCoords(q2, a3, 0)
            IN  /\ lr_pc' = "enter"
                /\ p1' = q1 /\ p2' = q2 /\ p3' = a3
                /\ entries_to_coords' = e2c
                /\ coords_to_entries' = CoordsToEntries(e2c)
                /\ lattice_word' = [n \in 1..Sum(q1) |-> None]
                /\ weight_count' = [n \in 1..Len(q1) |-> 0]
                /\ stack' = <<>>
                /\ location' = 0
                /\ count' = 0
                /\ UNCHANGED result

\* A call LR_coeff(a1, a2, a3).
LRCall ==
    /\ lr_pc = "idle"
    /\ \E a1 \in PartitionsUpTo(MaxLR), a2 \in PartitionsUpTo(MaxLR),
          a3 \in PartitionsUpTo(MaxLR) : LRStart(a1, a2, a3)
    /\ UNCHANGED <<run, first>>
    /\ UNCHANGED charVars

\* After LR_coeff(a, b, c) has returned, the call LR_coeff(b, a, c).
LRCallSwapped ==
    /\ lr_pc = "done" /\ run = 1
    /\ run' = 2
    /\ first' = result
    /\ LRStart(args[2], args[1], args[3])
    /\ UNCHANGED charVars

\* The return of a recursive_fill invocation: to the loop of its caller, or
\* (line 110) out of LR_coeff.
FillReturnTo ==
    IF stack = <<>> THEN /\ lr_pc' = "done"
                         /\ result' = count'
                    ELSE /\ lr_pc' = "ret"
                         /\ UNCHANGED result

\* lines 70-74: recursive_fill entered past the end of the word.
FillBase ==
    /\ lr_pc = "enter"
    /\ location >= Sum(p1)
    /\ count' = count + 1
    /\ FillReturnTo
    /\ UNCHANGED <<args, p1, p2, p3, entries_to_coords, coords_to_entries,
                   lattice_word, weight_count, stack, location, run, first>>
    /\ UNCHANGED charVars

\* lines 78-96: recursive_fill entered inside the word; viable is computed.
FillEnter ==
    /\ lr_pc = "enter"
    /\ location < Sum(p1)
    /\ stack' = Append(stack,
                  [location |-> location,
                   viable |-> Viable(p1, entries_to_coords, coords_to_entries,
                                     lattice_word, weight_count, location),
                   idx |-> 0])
    /\ lr_pc' = "loop"
    /\ UNCHANGED <<args, p1, p2, p3, entries_to_coords, coords_to_entries,
                   lattice_word, weight_count, location, count, result, run,
                   first>>
    /\ UNCHANGED charVars

\* lines 101-104: the next option is written and recursive_fill called on the
\* next location.
FillPlace ==
    /\ lr_pc = "loop"
    /\ LET top == stack[Len(stack)]
       IN  /\ top.idx < Len(top.viable)
           /\ LET option == At(top.viable, top.idx)
              IN  /\ lattice_word' =
                        [lattice_word EXCEPT ![top.location + 1] = option]
                  /\ weight_count' =
                        [weight_count EXCEPT ![option + 1] = @ + 1]
           /\ location' = top.location + 1
    /\ lr_pc' = "enter"
    /\ UNCHANGED <<args, p1, p2, p3, entries_to_coords, coords_to_entries,
                   stack, count, result, run, first>>
    /\ UNCHANGED charVars

\* lines 104-105: the recursive call has returned; the option is taken back.
FillUnplace ==
    /\ lr_pc = "ret"
    /\ LET top == stack[Len(stack)]
           option == At(top.viable, top.idx)
       IN  /\ weight_count' = [weight_count EXCEPT ![option + 1] = @ - 1]
           /\ stack' = [stack EXCEPT ![Len(stack)].idx = @ + 1]
    /\ lr_pc' = "loop"
    /\ UNCHANGED <<args, p1, p2, p3, entries_to_coords, coords_to_entries,
                   lattice_word, location, count, result, run, first>>
    /\ UNCHANGED charVars

\* line 107: the options are used up; recursive_fill returns count.
FillReturn ==
    /\ lr_pc = "loop"
    /\ LET top == stack[Len(stack)] IN top.idx >= Len(top.viable)
    /\ stack' = SubSeq(stack, 1, Len(stack) - 1)
    /\ count' = count
    /\ IF Len(stack) = 1 THEN lr_pc' = "done" /\ result' = count
                         ELSE lr_pc' = "ret" /\ UNCHANGED result
    /\ UNCHANGED <<args, p1, p2, p3, entries_to_coords, coords_to_entries,
                   lattice_word, weight_count, location, run, first>>
    /\ UNCHANGED charVars

LRNext ==
    \/ LRCall
    \/ LRCallSwapped
    \/ FillBase
    \/ FillEnter
    \/ FillPlace
    \/ FillUnplace
    \/ FillReturn

Init == CharInit /\ LRInit

SpecChar == Init /\ [][SingleCall]_vars
SpecMemo == Init /\ [][MemoCall]_vars
SpecLR == Init /\ [][LRNext]_vars

\* ------------------------------------------- reference definitions
\* The cells <<row, column>> (from 1) of the diagram of a partition.
Width(lam) == IF lam = <<>> THEN 0 ELSE lam[1]
Cells(lam) ==
    { rc \in (1..Len(lam)) \X (1..Width(lam)) : rc[2] <= lam[rc[1]] }

\* The conjugate partition: its j-th part is the number of rows of length >= j.
Conjugate(lam) ==
    [j \in 1..Width(lam) |->
        Cardinality({ r \in 1..Len(lam) : lam[r] >= j })]

\* The hook length of a cell: the cells to its right in its row, the cells
\* below it in its column, and itself.
HookLength(lam, cell) ==
    Cardinality({ d \in Cells(lam) : d[1] = cell[1] /\ d[2] > cell[2] })
    + Cardinality({ d \in Cells(lam) : d[2] = cell[2] /\ d[1] > cell[1] }) + 1

RECURSIVE HookLengthProduct(_, _)
HookLengthProduct(lam, cells) ==
    IF cells = {} THEN 1
    ELSE LET cell == CHOOSE d \in cells : TRUE
         IN  HookLength(lam, cell) * HookLengthProduct(lam, cells \ {cell})

\* lam/nu is a rim hook: nu lies inside lam, and the cells of lam outside nu are
\* a non-empty connected set (its rows are consecutive and each shares a column
\* with the next) holding no 2 x 2 square.
SkewCells(lam, nu) == Cells(lam) \ Cells(nu)
SkewRows(lam, nu) == { d[1] : d \in SkewCells(lam, nu) }
IsRimHook(lam, nu) ==
    LET D == SkewCells(lam, nu)
        R == SkewRows(lam, nu)
    IN  /\ Cells(nu) \subseteq Cells(lam)
        /\ D # {}
        /\ \A d \in D : <<d[1] + 1, d[2] + 1>> \notin D
        /\ \A r \in R : (r + 1) \in R \/ \A q \in R : q <= r
        /\ \A r \in R : (r + 1) \in R =>
              \E d \in D : d[1] = r /\ <<r + 1, d[2]>> \in D

\* The Murnaghan-Nakayama character: chi(empty, empty) = 1, and chi(lam, mu) is
\* the sum, over the partitions nu with lam/nu a rim hook of size mu[0], of
\* (-1)^(rows of lam/nu - 1) * chi(nu, mu[1:]).
RECURSIVE Chi(_, _)
RECURSIVE ChiSum(_, _, _)
ChiSum(lam, mu, nus) ==
    IF nus = {} THEN 0
    ELSE LET nu == CHOOSE n \in nus : TRUE
             sg == IF (Cardinality(SkewRows(lam, nu)) - 1) % 2 = 1 THEN -1 ELSE 1
         IN  sg * Chi(nu, Tail(mu)) + ChiSum(lam, mu, nus \ {nu})
Chi(lam, mu) ==
    IF mu = <<>> THEN (IF lam = <<>> THEN 1 ELSE 0)
    ELSE IF Sum(lam) < mu[1] THEN 0
    ELSE ChiSum(lam, mu,
                { nu \in Partitions(Sum(lam) - mu[1]) : IsRimHook(lam, nu) })

Ones(n) == [i \in 1..n |-> 1]
SameSize == Sum(char) = Sum(elt)
Called == outcome # "none"

\* --------------------------------------------------- claims, char_val
\* C3 (as claimed): a call of char_val whose two arguments have different sums
\* signals an error, returns no value and adds no entry to chardict.
C3_MismatchFails ==
    (Called /\ ~SameSize) => (outcome # "returned" /\ chardict = SeedDict)

\* C4 (as claimed): char_val([n], [n]) = (-1)^(n-1) for every n >= 1.
C4_FullCycleAlternates ==
    (Called /\ Len(char) = 1 /\ elt = char) =>
        (outcome = "returned" /\ value = (IF (char[1] - 1) % 2 = 1 THEN -1 ELSE 1))

\* C4 (amended): char_val([n], [n]) = 1 for every n >= 1.
C4_FullCycleSingleRow ==
    (Called /\ Len(char) = 1 /\ elt = char) => (outcome = "returned" /\ value = 1)

C4_Witness == outcome = "returned" /\ char = <<4>> /\ elt = <<4>> /\ value = 1

\* C5: for partitions of the same size char_val returns the Murnaghan-Nakayama
\* character Chi(char, elt); in particular char_val([4,1], [3,1,1]) = 1.
C5_MurnaghanNakayama ==
    (Called /\ SameSize) =>
        /\ outcome = "returned"
        /\ value = Chi(char, elt)
        /\ (char = <<4, 1>> /\ elt = <<3, 1, 1>>) => value = 1

C5_Witness ==
    outcome = "returned" /\ char = <<4, 1>> /\ elt = <<3, 1, 1>> /\ value = 1

\* C6: on the identity cycle type [1]*n char_val returns n! divided by the
\* product of the hook lengths of the cells, the division is exact, dual is the
\* conjugate partition, char_val([2,1], [1,1,1]) = 2 and char_val([], []) = 1.
C6_HookLengthDimension ==
    /\ (Called /\ char # <<>> /\ elt = Ones(Sum(char))) =>
          LET prod == HookLengthProduct(char, Cells(char))
          IN  /\ outcome = "returned"
              /\ factorial(Sum(char)) % prod = 0
              /\ value = factorial(Sum(char)) \div prod
              /\ dual(char) = Conjugate(char)
              /\ char = <<2, 1>> => value = 2
    /\ (Called /\ char = <<>> /\ elt = <<>>) => (outcome = "returned" /\ value = 1)

C6_Witness ==
    outcome = "returned" /\ char = <<3, 2, 1>> /\ elt = Ones(6) /\ eltIsList
    /\ value = 16

\* C8: for every k and every window of k consecutive border cells that passes
\* both validity checks, rectify returns a weakly decreasing sequence of
\* positive integers of sum sum(char) - k, empty when every cell is removed.
C8_RectifyYieldsPartition ==
    (Called /\ char # <<>>) =>
        LET bs == Borderstrip(char)
        IN  \A k \in 1..Len(bs) : \A i \in 0..(Len(bs) - k) :
              WindowValid(bs, i, k) =>
                LET r == rectify(char, Window(bs, i, k))
                IN  /\ IsPartition(r)
                    /\ Sum(r) = Sum(char) - k
                    /\ k = Sum(char) => r = <<>>

C8_Witness ==
    /\ Called /\ char = <<3, 2>>
    /\ LET bs == Borderstrip(char)
       IN  /\ WindowValid(bs, 0, 4) /\ rectify(char, Window(bs, 0, 4)) = <<1>>
           /\ WindowValid(bs, 1, 3) /\ rectify(char, Window(bs, 1, 3)) = <<1, 1>>
           /\ ~WindowValid(bs, 0, 3)

\* C9 (as claimed): the nesting of char_val invocations never exceeds the
\* number of distinct part values of the cycle type.
C9_DepthWithinDistinctParts ==
    (Called /\ SameSize) =>
        depth <= Cardinality({ elt[n] : n \in 1..Len(elt) })

\* C9 (amended): the nesting of char_val invocations never exceeds one plus the
\* number of parts of the cycle type greater than 1 when the cycle type is a
\* list, and one plus the number of its parts when it is a tuple.
C9_DepthBound ==
    (Called /\ SameSize) =>
        depth <= 1 + (IF eltIsList
                      THEN Cardinality({ n \in 1..Len(elt) : elt[n] > 1 })
                      ELSE Len(elt))

C9_Witness ==
    /\ outcome = "returned" /\ char = <<2, 2, 1>> /\ elt = <<2, 2, 1>>
    /\ eltIsList /\ depth = 3

\* The last call returned what it returns on the freshly seeded chardict.
C7_ReturnsFresh ==
    Called => /\ outcome = "returned"
              /\ value = char_val(SeedDict, char, elt, eltIsList).val
\* Every entry of chardict holds the fresh value of its key.
C7_EntriesFresh ==
    \A key \in DOMAIN chardict : \A isList \in BOOLEAN :
        chardict[key] = char_val(SeedDict, key[1], key[2], isList).val
\* A step neither changes nor removes an entry.
C7_EntriesKept ==
    \A key \in DOMAIN chardict :
        key \in DOMAIN chardict' /\ chardict'[key] = chardict[key]
\* C7: in a sequence of calls on partitions of the same size every call returns
\* what it returns on the freshly seeded chardict, every entry of chardict holds
\* that value for its key, and no entry is ever changed or removed.
C7_MemoTransparent ==
    [](C7_ReturnsFresh /\ C7_EntriesFresh) /\ [][C7_EntriesKept]_vars

C7_Witness ==
    /\ calls = 2 /\ outcome = "returned" /\ char = <<1, 1>> /\ elt = <<2>>
    /\ value = -1 /\ CacheKey(<<1, 1>>, <<1, 1>>) \in DOMAIN chardict

\* --------------------------------------------------- claims, LR_coeff
\* p3/p2 is a horizontal strip: p2 lies inside p3 and no two cells of p3
\* outside p2 are in the same column.
HorizontalStrip(q2, q3) ==
    /\ Cells(q2) \subseteq Cells(q3)
    /\ \A d \in SkewCells(q3, q2) : \A e \in SkewCells(q3, q2) :
          d[2] = e[2] => d = e

\* C1: LR_coeff(p1, p2, p3) = LR_coeff(p2, p1, p3): the second run, on the
\* first run's arguments with p1 and p2 exchanged, returns what the first did.
C1_Symmetry ==
    (lr_pc = "done" /\ run = 2) => result = first

C1_Witness ==
    /\ lr_pc = "done" /\ run = 2
    /\ args = << <<1, 1, 1>>, <<2, 1>>, <<3, 2, 1>> >>
    /\ ~SwapNeeded(args[1], args[2]) /\ ~SwapNeeded(args[2], args[1])
    /\ result = 1 /\ first = 1

\* C2: LR_coeff([k], p2, p3) is 1 when p3/p2 is a horizontal strip of size k
\* and 0 for every other p3 of that size, with and without the swap.
C2_Pieri ==
    (lr_pc = "done" /\ Len(args[1]) = 1) =>
        result = (IF HorizontalStrip(args[2], args[3]) THEN 1 ELSE 0)

C2_Witness ==
    /\ lr_pc = "done" /\ run = 1
    /\ args = << <<3>>, <<2>>, <<4, 1>> >>
    /\ SwapNeeded(args[1], args[2])
    /\ result = 1

\* The letters of the first m places of the word that are c.
LetterCount(word, m, c) == Cardinality({ j \in 1..m : word[j] = c })

\* The cells of p3/p2 in reading order: rows from the top, each from the right.
InReadingOrder(e2c) ==
    \A j \in 1..Len(e2c) : \A q \in 1..Len(e2c) :
        j < q => \/ e2c[j][1] < e2c[q][1]
                 \/ e2c[j][1] = e2c[q][1] /\ e2c[j][2] > e2c[q][2]

\* The word is a Littlewood-Richardson filling of p3/p2 of content p1.
IsLRFilling(word) ==
    LET shape == SkewCells(p3, p2)
        pos(cell) == CHOOSE j \in 1..Len(entries_to_coords) :
                        entries_to_coords[j] = cell
    IN  /\ Len(word) = Sum(p1)
        /\ { entries_to_coords[j] : j \in 1..Len(entries_to_coords) } = shape
        /\ Len(entries_to_coords) = Cardinality(shape)
        /\ InReadingOrder(entries_to_coords)
        /\ \A j \in 1..Len(word) : word[j] \in 0..(Len(p1) - 1)
        /\ \A c \in 0..(Len(p1) - 1) :
              LetterCount(word, Len(word), c) = At(p1, c)
        /\ \A m \in 0..Len(word) : \A c \in 1..(Len(p1) - 1) :
              LetterCount(word, m, c - 1) >= LetterCount(word, m, c)
        /\ \A cell \in shape :
              /\ <<cell[1], cell[2] + 1>> \in shape =>
                    word[pos(cell)] <= word[pos(<<cell[1], cell[2] + 1>>)]
              /\ <<cell[1] - 1, cell[2]>> \in shape =>
                    word[pos(cell)] > word[pos(<<cell[1] - 1, cell[2]>>)]

Searching == lr_pc \in {"enter", "loop", "ret"}

\* The invocation at the last location has just counted a word, or the base
\* case is entered and about to count it.
BaseCase ==
    \/ lr_pc = "enter" /\ location >= Sum(p1)
    \/ lr_pc = "ret" /\ Len(stack) = Sum(p1)

\* The letter each active invocation has written is the one in the word.
PlacedLettersCurrent ==
    \A n \in 1..Len(stack) :
        /\ stack[n].location = n - 1
        /\ (n < Len(stack) \/ lr_pc \in {"enter", "ret"}) =>
              /\ stack[n].idx < Len(stack[n].viable)
              /\ lattice_word[n] = At(stack[n].viable, stack[n].idx)

\* The cells the bounds are read from are earlier places of the word.
BoundsReadEarlier ==
    (lr_pc = "enter" /\ location < Sum(p1)) =>
        LET cell == At(entries_to_coords, location)
        IN  /\ Len(stack) = location
            /\ \A nb \in { <<cell[1], cell[2] + 1>>, <<cell[1] - 1, cell[2]>> } :
                  nb \in DOMAIN coords_to_entries =>
                      coords_to_entries[nb] < location

\* C10: during the search weight_count[c] <= p1[c] and weight_count[c] <=
\* weight_count[c-1]; a counted word is a Littlewood-Richardson filling of
\* p3/p2 of content p1; the bounds are read only from places before the
\* current location, which hold the letters of the active invocations.
C10_SearchSound ==
    Searching =>
        /\ \A c \in 0..(Len(p1) - 1) :
              /\ At(weight_count, c) <= At(p1, c)
              /\ c >= 1 => At(weight_count, c) <= At(weight_count, c - 1)
        /\ BaseCase => (location = Sum(p1) /\ IsLRFilling(lattice_word))
        /\ PlacedLettersCurrent
        /\ BoundsReadEarlier

C10_Witness ==
    /\ lr_pc = "ret" /\ Len(stack) = Sum(p1) /\ count = 2
    /\ args = << <<2, 1>>, <<2, 1>>, <<3, 2, 1>> >>
    /\ lattice_word = <<0, 1, 0>>
    /\ \E n \in 1..Len(lattice_word) : lattice_word[n] # stack[n].viable[1]
====
